---- MODULE Spec2Model ----
(***************************************************************************)
(* Model of scripts/fetch_jpl_api.py: the orbital-element extractor        *)
(* JPLHorizonsAPI.parse_horizons_output, its caller fetch_elements, and    *)
(* the accumulation loops of main.                                         *)
(*                                                                         *)
(* A text is a sequence of one-character strings.  A float is the integer  *)
(* number of hundredths it denotes (Scale), so 30.1 is 3010.               *)
(***************************************************************************)
EXTENDS Integers, Sequences, FiniteSets, TLC

VARIABLES
    input,      \* the description the response text was rendered from
    text,       \* parse_horizons_output: parameter text
    ppc,        \* parse_horizons_output: position in the function body
    lines,      \* parse_horizons_output: local lines
    li,         \* parse_horizons_output: index of the next line of the for loop
    elements,   \* parse_horizons_output: local elements (a dict)
    fell_back,  \* parse_horizons_output: whether the 'if not elements' body ran
    result,     \* parse_horizons_output: the returned value
    mpc,        \* main: position in the function body
    p_idx,      \* main: index of the next planet_info of the planet loop
    t_idx,      \* main: index of the current tno_info of the TNO loop
    f_idx,      \* main: index of the next id_format of the inner loop
    m_elements, \* main: local elements
    planets,    \* main: local planets (a list)
    tnos,       \* main: local tnos (a list)
    calls       \* the calls of api.fetch_elements so far: the object they were made
                \* for, the object_id passed and the value returned

parse_vars == <<input, text, ppc, lines, li, elements, fell_back, result>>
main_vars == <<mpc, p_idx, t_idx, f_idx, m_elements, planets, tnos, calls>>
vars == <<input, text, ppc, lines, li, elements, fell_back, result,
          mpc, p_idx, t_idx, f_idx, m_elements, planets, tnos, calls>>

(***************************************************************************)
(* Bounds of the checked input sets.                                       *)
(***************************************************************************)
MaxFields == 13     \* longest row of a data block
MaxRows == 3        \* most lines between the markers
MaxPatterns == 2    \* most "key = value" lines of a text
MaxPlanets == 2     \* length of the checked prefix of get_planet_data()
MaxTnos == 2        \* length of the checked prefix of get_tno_list()

(***************************************************************************)
(* Characters and Python's str operations.                                 *)
(***************************************************************************)
NL == "\n"
Digit == {"0", "1", "2", "3", "4", "5", "6", "7", "8", "9"}
Whitespace == {" ", NL}

Upper == <<"A","B","C","D","E","F","G","H","I","J","K","L","M",
           "N","O","P","Q","R","S","T","U","V","W","X","Y","Z">>
Lower == <<"a","b","c","d","e","f","g","h","i","j","k","l","m",
           "n","o","p","q","r","s","t","u","v","w","x","y","z">>

\* s[a:b] for 0 <= a, 0 <= b (empty when b <= a)
Slice(s, a, b) == SubSeq(s, a + 1, IF b > Len(s) THEN Len(s) ELSE b)

\* s.startswith(sub, i), i counted from 1
MatchesAt(s, i, sub) ==
    /\ i + Len(sub) - 1 <= Len(s)
    /\ \A j \in 1..Len(sub) : s[i + j - 1] = sub[j]

\* sub in s
Contains(s, sub) == \E i \in 1..(Len(s) + 1) : MatchesAt(s, i, sub)

\* s.find(sub), for a sub that s contains
Find(s, sub) ==
    (CHOOSE i \in 1..(Len(s) + 1) :
        /\ MatchesAt(s, i, sub)
        /\ \A j \in 1..(i - 1) : ~MatchesAt(s, j, sub)) - 1

\* s.strip()
Strip(s) ==
    LET keep == {i \in 1..Len(s) : s[i] \notin Whitespace}
    IN  IF keep = {} THEN <<>>
        ELSE LET lo == CHOOSE i \in keep : \A j \in keep : i <= j
                 hi == CHOOSE i \in keep : \A j \in keep : j <= i
             IN  SubSeq(s, lo, hi)

\* s.split(sep) for a one-character sep
RECURSIVE Split(_, _)
Split(s, sep) ==
    LET at == {i \in 1..Len(s) : s[i] = sep}
    IN  IF at = {} THEN <<s>>
        ELSE LET i == CHOOSE k \in at : \A j \in at : k <= j
             IN  <<SubSeq(s, 1, i - 1)>> \o Split(SubSeq(s, i + 1, Len(s)), sep)

\* any(c.isdigit() for c in s)
AnyDigit(s) == \E i \in 1..Len(s) : s[i] \in Digit

(***************************************************************************)
(* float(s), for the decimal literals [+-]digits[.digits] and [+-].digits  *)
(* (the input sets hold no exponent, "inf", "nan" or "_" spelling).        *)
(* ok = FALSE stands for ValueError.                                       *)
(***************************************************************************)
Scale == 100

DigitChars == <<"0", "1", "2", "3", "4", "5", "6", "7", "8", "9">>
DigitValue(c) == (CHOOSE d \in 1..10 : DigitChars[d] = c) - 1

RECURSIVE NatOf(_)
NatOf(ds) ==
    IF ds = <<>> THEN 0
    ELSE NatOf(SubSeq(ds, 1, Len(ds) - 1)) * 10 + DigitValue(ds[Len(ds)])

\* the hundredths a fraction's digits denote (digits past the second dropped)
FracOf(ds) ==
    (IF Len(ds) >= 1 THEN DigitValue(ds[1]) * 10 ELSE 0)
    + (IF Len(ds) >= 2 THEN DigitValue(ds[2]) ELSE 0)

float(s) ==
    LET t == Strip(s)
        signed == Len(t) > 0 /\ t[1] \in {"+", "-"}
        body == IF signed THEN Tail(t) ELSE t
        dots == {i \in 1..Len(body) : body[i] = "."}
        ok == /\ \A i \in 1..Len(body) : body[i] \in Digit \cup {"."}
              /\ Cardinality(dots) <= 1
              /\ AnyDigit(body)
        dot == IF dots = {} THEN Len(body) + 1 ELSE CHOOSE i \in dots : TRUE
        magnitude == NatOf(SubSeq(body, 1, dot - 1)) * Scale
                     + FracOf(SubSeq(body, dot + 1, Len(body)))
    IN  IF ok
        THEN [ok |-> TRUE,
              value |-> IF signed /\ t[1] = "-" THEN 0 - magnitude ELSE magnitude]
        ELSE [ok |-> FALSE, value |-> 0]

(***************************************************************************)
(* re.search(pattern, text, re.IGNORECASE) for the patterns of the         *)
(* fallback strategy: alternatives  key\s*=\s*([\d.+-]+)  joined by "|".   *)
(***************************************************************************)
NumClass == Digit \cup {".", "+", "-"}

\* (variant) the search done without re.IGNORECASE
Fold_CaseSensitive(c) == c

\* re.IGNORECASE: characters are compared case-folded
Fold(c) ==
    IF \E k \in 1..26 : Upper[k] = c
    THEN Lower[CHOOSE k \in 1..26 : Upper[k] = c]
    ELSE c

\* the first position at or after i that holds no character of class
SkipWhile(s, i, class) ==
    CHOOSE k \in i..(Len(s) + 1) :
        /\ k = Len(s) + 1 \/ s[k] \notin class
        /\ \A j \in i..(k - 1) : s[j] \in class

\* the group captured by one alternative matched at position i; <<>> is no match
AltMatch(s, i, key) ==
    IF ~(/\ i + Len(key) - 1 <= Len(s)
         /\ \A j \in 1..Len(key) : Fold(s[i + j - 1]) = Fold(key[j]))
    THEN <<>>
    ELSE LET eq == SkipWhile(s, i + Len(key), Whitespace)
         IN  IF eq > Len(s) \/ s[eq] # "="
             THEN <<>>
             ELSE LET v == SkipWhile(s, eq + 1, Whitespace)
                  IN  SubSeq(s, v, SkipWhile(s, v, NumClass) - 1)

\* (variant) the first-listed alternative is preferred wherever it matches,
\* and a later alternative is taken only if no earlier one matches anywhere
re_search_FirstAlternative(alts, s) ==
    LET matching(a) == {i \in 1..Len(s) : AltMatch(s, i, alts[a]) # <<>>}
        ok == {a \in 1..Len(alts) : matching(a) # {}}
    IN  IF ok = {}
        THEN [matched |-> FALSE, groups |-> [a \in 1..Len(alts) |-> <<>>]]
        ELSE LET alt == CHOOSE a \in ok : \A b \in ok : a <= b
                 at == CHOOSE i \in matching(alt) : \A j \in matching(alt) : i <= j
             IN  [matched |-> TRUE,
                  groups |-> [a \in 1..Len(alts) |->
                                 IF a = alt THEN AltMatch(s, at, alts[a]) ELSE <<>>]]

\* the leftmost match; at one position the first alternative that matches.
\* groups[a] = <<>> stands for match.group(a) being None
re_search(alts, s) ==
    LET hits == {i \in 1..Len(s) :
                    \E a \in 1..Len(alts) : AltMatch(s, i, alts[a]) # <<>>}
    IN  IF hits = {}
        THEN [matched |-> FALSE, groups |-> [a \in 1..Len(alts) |-> <<>>]]
        ELSE LET at == CHOOSE i \in hits : \A j \in hits : i <= j
                 ok == {a \in 1..Len(alts) : AltMatch(s, at, alts[a]) # <<>>}
                 alt == CHOOSE a \in ok : \A b \in ok : a <= b
             IN  [matched |-> TRUE,
                  groups |-> [a \in 1..Len(alts) |->
                                 IF a = alt THEN AltMatch(s, at, alts[a]) ELSE <<>>]]

\* the dict patterns, in insertion order
patterns == <<
    [key |-> "semimajor_axis", alts |-> << <<"a">> >>],
    [key |-> "eccentricity", alts |-> << <<"e">> >>],
    [key |-> "inclination", alts |-> << <<"i">> >>],
    [key |-> "longitude_ascending_node",
     alts |-> << <<"n", "o", "d", "e">>, <<"O", "m", "e", "g", "a">> >>],
    [key |-> "argument_perihelion",
     alts |-> << <<"p", "e", "r", "i">>, <<"w">> >>],
    [key |-> "mean_anomaly", alts |-> << <<"M">> >>],
    [key |-> "perihelion", alts |-> << <<"q">> >>],
    [key |-> "aphelion", alts |-> << <<"Q">> >>] >>

\* value = match.group(1) if match.group(1) else match.group(2)
MatchValue(m) == IF m.groups[1] # <<>> THEN m.groups[1] ELSE m.groups[2]

\* the body of 'if not elements': every pattern that matches and whose value
\* float() accepts sets its key
FallbackStrategy(s) ==
    LET m(k) == re_search(patterns[k].alts, s)
        set == {k \in 1..Len(patterns) : m(k).matched /\ float(MatchValue(m(k))).ok}
    IN  [name \in {patterns[k].key : k \in set} |->
            LET k == CHOOSE j \in set : patterns[j].key = name
            IN  float(MatchValue(m(k))).value]

(***************************************************************************)
(* The tabular strategy: one line of the data section.                     *)
(***************************************************************************)
MinFields == 11

Unknown == <<>>         \* None as the value of orbital_period
Known(v) == <<v>>       \* a float as the value of orbital_period

\* parts[k] raises IndexError
IndexError(parts, k) == k >= Len(parts)

\* float(parts[k]) raises ValueError
ValueError(parts, k) == parts[k + 1] # <<>> /\ ~float(parts[k + 1]).ok

\* float(parts[k]) if parts[k] else 0
Field(parts, k) == IF parts[k + 1] # <<>> THEN float(parts[k + 1]).value ELSE 0

UsedFields == {0, 1, 2, 3, 4, 7, 9, 10, 11}

\* (variant) mean_anomaly read from field 6 (N) instead of field 7 (MA)
RowElements_MeanMotion(parts) ==
    [name \in {"eccentricity", "perihelion", "inclination",
               "longitude_ascending_node", "argument_perihelion", "mean_anomaly",
               "semimajor_axis", "aphelion", "orbital_period"} |->
        CASE name = "eccentricity" -> Field(parts, 0)
          [] name = "perihelion" -> Field(parts, 1)
          [] name = "inclination" -> Field(parts, 2)
          [] name = "longitude_ascending_node" -> Field(parts, 3)
          [] name = "argument_perihelion" -> Field(parts, 4)
          [] name = "mean_anomaly" -> Field(parts, 6)
          [] name = "semimajor_axis" -> Field(parts, 9)
          [] name = "aphelion" -> Field(parts, 10)
          [] name = "orbital_period" ->
                IF parts[12] # <<>> THEN Known(float(parts[12]).value) ELSE Unknown]

\* the dict display of the try block
RowElements(parts) ==
    [name \in {"eccentricity", "perihelion", "inclination",
               "longitude_ascending_node", "argument_perihelion", "mean_anomaly",
               "semimajor_axis", "aphelion", "orbital_period"} |->
        CASE name = "eccentricity" -> Field(parts, 0)
          [] name = "perihelion" -> Field(parts, 1)
          [] name = "inclination" -> Field(parts, 2)
          [] name = "longitude_ascending_node" -> Field(parts, 3)
          [] name = "argument_perihelion" -> Field(parts, 4)
          [] name = "mean_anomaly" -> Field(parts, 7)
          [] name = "semimajor_axis" -> Field(parts, 9)
          [] name = "aphelion" -> Field(parts, 10)
          [] name = "orbital_period" ->
                IF parts[12] # <<>> THEN Known(float(parts[12]).value) ELSE Unknown]

\* parts = [p.strip() for p in line.split(',')]
Parts(line) ==
    LET raw == Split(line, ",") IN [k \in 1..Len(raw) |-> Strip(raw[k])]

\* (variant) a row is taken only while elements is still empty: the first row wins
ScanLine_FirstWins(elems, line) ==
    IF Contains(line, <<",">>) /\ AnyDigit(line) /\ DOMAIN elems = {}
    THEN LET parts == Parts(line)
         IN  IF Len(parts) >= MinFields
             THEN IF \E k \in UsedFields : IndexError(parts, k) \/ ValueError(parts, k)
                  THEN elems
                  ELSE RowElements(parts)
             ELSE elems
    ELSE elems

\* one iteration of 'for line in lines': the value of elements after it
ScanLine(elems, line) ==
    IF Contains(line, <<",">>) /\ AnyDigit(line)
    THEN LET parts == Parts(line)
         IN  IF Len(parts) >= MinFields
             THEN IF \E k \in UsedFields : IndexError(parts, k) \/ ValueError(parts, k)
                  THEN elems          \* except (ValueError, IndexError): pass
                  ELSE RowElements(parts)
             ELSE elems
    ELSE elems

S_NoMatches == <<"N","o"," ","m","a","t","c","h","e","s"," ","f","o","u","n","d">>
S_CannotFind == <<"C","a","n","n","o","t"," ","f","i","n","d">>
S_SOE == <<"$","$","S","O","E">>
S_EOE == <<"$","$","E","O","E">>

\* (variant) only the first of the two phrases is looked for
ObjectNotFound_OnePhrase(s) == Contains(s, S_NoMatches)

\* "No matches found" in text or "Cannot find" in text
ObjectNotFound(s) == Contains(s, S_NoMatches) \/ Contains(s, S_CannotFind)

\* "$$SOE" in text and "$$EOE" in text
HasMarkers(s) == Contains(s, S_SOE) /\ Contains(s, S_EOE)

\* data_section.split('\n') of the text between the markers
DataLines(s) ==
    LET start == Find(s, S_SOE) + 5
        end == Find(s, S_EOE)
        data_section == Strip(Slice(s, start, end))
    IN  Split(data_section, NL)

\* a returned value: None, or a dict
None == [present |-> FALSE, elements |-> <<>>]
Dict(d) == [present |-> TRUE, elements |-> d]

\* the truth value of a returned value ('if elements:')
Truthy(r) == r.present /\ DOMAIN r.elements # {}

\* (variant) return elements
ReturnValue_Elements(elems) == Dict(elems)

\* return elements if elements else None
ReturnValue(elems) == IF DOMAIN elems # {} THEN Dict(elems) ELSE None

RECURSIVE ScanLines(_, _)
ScanLines(elems, ls) ==
    IF ls = <<>> THEN elems ELSE ScanLines(ScanLine(elems, Head(ls)), Tail(ls))

\* parse_horizons_output(text, object_id) as a function of text
parse_horizons_output(s) ==
    IF ObjectNotFound(s) THEN None
    ELSE LET tabular == IF HasMarkers(s) THEN ScanLines(<<>>, DataLines(s)) ELSE <<>>
         IN  ReturnValue(IF DOMAIN tabular = {} THEN FallbackStrategy(s) ELSE tabular)

(***************************************************************************)
(* The checked response texts.  A text is rendered from a description:     *)
(* a header line, an optional not-found phrase (before or after the rest), *)
(* an optional data block of comma-separated rows, and "key = value"       *)
(* lines.  A field is described by what it denotes, and rendered to the    *)
(* characters the service would send.                                      *)
(***************************************************************************)
Num(v) == [kind |-> "num", v |-> v]         \* v hundredths, as "30.10"
Whole(v) == [kind |-> "int", v |-> v]         \* v hundredths, as "30"
Pad(v) == [kind |-> "pad", v |-> v]         \* as " 30.10 "
Dotted(v) == [kind |-> "dotted", v |-> v]   \* as "30.10." (a sentence's end)
Empty == [kind |-> "empty", v |-> 0]        \* as ""
Word == [kind |-> "word", v |-> 0]          \* as "x"

RECURSIVE Digits(_)
Digits(n) ==
    IF n < 10 THEN <<DigitChars[n + 1]>>
    ELSE Digits(n \div 10) \o <<DigitChars[(n % 10) + 1]>>

Decimal(v) ==
    Digits(v \div Scale) \o <<".">>
        \o <<DigitChars[((v % Scale) \div 10) + 1], DigitChars[(v % 10) + 1]>>

RenderField(f) ==
    CASE f.kind = "num" -> Decimal(f.v)
      [] f.kind = "int" -> Digits(f.v \div Scale)
      [] f.kind = "pad" -> <<" ">> \o Decimal(f.v) \o <<" ">>
      [] f.kind = "dotted" -> Decimal(f.v) \o <<".">>
      [] f.kind = "empty" -> <<>>
      [] f.kind = "word" -> <<"x">>

RECURSIVE Join(_, _)
Join(parts, sep) ==
    IF parts = <<>> THEN <<>>
    ELSE IF Len(parts) = 1 THEN parts[1]
    ELSE parts[1] \o <<sep>> \o Join(Tail(parts), sep)

RenderRow(row) == Join([k \in 1..Len(row) |-> RenderField(row[k])], ",")

KeyText(key) ==
    CASE key = "node" -> <<"n", "o", "d", "e">>
      [] key = "Omega" -> <<"O", "m", "e", "g", "a">>
      [] key = "peri" -> <<"p", "e", "r", "i">>
      [] OTHER -> <<key>>

RenderPattern(kv) == KeyText(kv.key) \o <<" ", "=", " ">> \o RenderField(kv.f)

S_Header == <<"J", "P", "L", " ", "5", "9", "9">>

RenderText(d) ==
    LET phrase == IF d.phrase = "none" THEN <<>>
                  ELSE IF d.phrase = "no_matches" THEN <<S_NoMatches>>
                  ELSE <<S_CannotFind>>
        block == (IF d.markers = "none" THEN <<>> ELSE <<S_SOE>>)
                 \o [k \in 1..Len(d.rows) |-> RenderRow(d.rows[k])]
                 \o (IF d.markers = "both" THEN <<S_EOE>> ELSE <<>>)
        kvs == [k \in 1..Len(d.kvs) |-> RenderPattern(d.kvs[k])]
    IN  Join(<<S_Header>>
             \o (IF d.phrase_last THEN <<>> ELSE phrase)
             \o block \o kvs
             \o (IF d.phrase_last THEN phrase ELSE <<>>), NL)

Text(phrase, phrase_last, markers, rows, kvs) ==
    [phrase |-> phrase, phrase_last |-> phrase_last, markers |-> markers,
     rows |-> rows, kvs |-> kvs]

\* a row of n numeric fields, field k (counted from 0) denoting base + 10 (k + 1)
Row(base, n) == [k \in 1..n |-> Num(base + 1000 * k)]
Perturb(row, p, f) == [row EXCEPT ![p] = f]

RowLengths == (MinFields - 1)..MaxFields

\* rows that differ from a numeric row in at most one field
Rows ==
    {Row(25, n) : n \in RowLengths}
    \cup {Perturb(Row(25, n[1]), n[2], f) :
            n \in {m \in RowLengths \X (1..MaxFields) : m[2] <= m[1]},
            f \in {Empty, Word, Pad(77777), Whole(90000)}}
    \cup {[k \in 1..(MinFields + 1) |-> Empty],
          [k \in 1..(MinFields + 1) |-> IF k = 6 THEN Whole(500) ELSE Empty],
          [k \in 1..(MinFields + 1) |-> IF k \in {6, 7, 9} THEN Word ELSE Num(1000 * k)]}

\* the rows of the blocks of several lines
SmallRows ==
    {Row(25, MinFields + 1), Row(1500, MinFields + 1), Row(1500, MinFields),
     Perturb(Row(1500, MinFields + 1), 2, Word),
     Perturb(Row(1500, MinFields + 1), 1, Empty),
     [k \in 1..3 |-> Word]}

RECURSIVE SeqsUpTo(_, _)
SeqsUpTo(S, n) ==
    IF n = 0 THEN {<<>>}
    ELSE LET shorter == SeqsUpTo(S, n - 1)
         IN  shorter \cup {Append(q, x) : q \in {r \in shorter : Len(r) = n - 1}, x \in S}

Blocks ==
    {<<r>> : r \in Rows} \cup {b \in SeqsUpTo(SmallRows, MaxRows) : Len(b) >= 2}

\* the "key = value" line at place j of a text
PatternLines(j) ==
    {[key |-> k, f |-> f] :
        k \in {"node", "Omega", "peri", "w", "q", "Q"},
        f \in {Num(85 + 100 * j), Dotted(85 + 100 * j), Word}}

RECURSIVE PatternSeqs(_)
PatternSeqs(n) ==
    IF n = 0 THEN {<<>>}
    ELSE LET shorter == PatternSeqs(n - 1)
         IN  shorter \cup {Append(q, x) : q \in {r \in shorter : Len(r) = n - 1},
                                          x \in PatternLines(n)}

Phrases == {<<"none", FALSE>>, <<"no_matches", FALSE>>, <<"no_matches", TRUE>>,
            <<"cannot_find", FALSE>>, <<"cannot_find", TRUE>>}

Inputs ==
    \* a data block, with and without a phrase and a pattern the fallback would match
    {Text(ph[1], ph[2], "both", b, kvs) :
        ph \in Phrases, b \in Blocks, kvs \in {<<>>, <<[key |-> "q", f |-> Num(3500)]>>}}
    \* rows without both markers
    \cup {Text("none", FALSE, m, b, <<>>) :
            m \in {"none", "soe"}, b \in {<<>>, <<Row(25, MinFields + 1)>>}}
    \* texts for the fallback strategy
    \cup {Text(ph[1], ph[2], "none", <<>>, kvs) :
            ph \in {<<"none", FALSE>>, <<"cannot_find", TRUE>>},
            kvs \in PatternSeqs(MaxPatterns)}
    \cup {Text("none", FALSE, "none", <<>>, <<[key |-> k, f |-> Num(85)]>>) :
            k \in {"a", "e", "i", "M"}}
    \cup {Text("none", FALSE, "none", <<>>,
               <<[key |-> "e", f |-> Num(85)], [key |-> "a", f |-> Num(45030)]>>)}

(***************************************************************************)
(* parse_horizons_output, step by step.                                    *)
(***************************************************************************)
NoInput == Text("none", FALSE, "none", <<>>, <<>>)

ParseIdle ==
    /\ input = NoInput /\ text = <<>> /\ ppc = "idle" /\ lines = <<>> /\ li = 1
    /\ elements = <<>> /\ fell_back = FALSE /\ result = None

MainIdle ==
    /\ mpc = "idle" /\ p_idx = 1 /\ t_idx = 1 /\ f_idx = 1 /\ m_elements = None
    /\ planets = <<>> /\ tnos = <<>> /\ calls = <<>>

\* a call fetch_elements(object_id, epoch) to which the service would answer input
ParseInit ==
    /\ input \in Inputs
    /\ text = <<>>
    /\ ppc = "fetch" /\ lines = <<>> /\ li = 1
    /\ elements = <<>> /\ fell_back = FALSE /\ result = None
    /\ MainIdle

\* urlopen(url) and response.read().decode('utf-8') deliver the text
Urlopen ==
    /\ ppc = "fetch"
    /\ text' = RenderText(input)
    /\ ppc' = "start"
    /\ UNCHANGED <<input, lines, li, elements, fell_back, result>>
    /\ UNCHANGED main_vars

\* urlopen raises: except Exception: return None
UrlopenRaises ==
    /\ ppc = "fetch"
    /\ result' = None
    /\ ppc' = "failed"
    /\ UNCHANGED <<input, text, lines, li, elements, fell_back>>
    /\ UNCHANGED main_vars

\* elements = {}; if "No matches found" in text or "Cannot find" in text: return None
NotFoundCheck ==
    /\ ppc = "start"
    /\ elements' = <<>>
    /\ IF ObjectNotFound(text)
       THEN result' = None /\ ppc' = "done"
       ELSE result' = result /\ ppc' = "markers"
    /\ UNCHANGED <<input, text, lines, li, fell_back>>
    /\ UNCHANGED main_vars

\* if "$$SOE" in text and "$$EOE" in text: ... lines = data_section.split('\n')
FindSection ==
    /\ ppc = "markers"
    /\ IF HasMarkers(text)
       THEN lines' = DataLines(text) /\ li' = 1 /\ ppc' = "scan"
       ELSE lines' = lines /\ li' = li /\ ppc' = "fallback"
    /\ UNCHANGED <<input, text, elements, fell_back, result>>
    /\ UNCHANGED main_vars

\* one iteration of 'for line in lines'
ScanStep ==
    /\ ppc = "scan" /\ li <= Len(lines)
    /\ elements' = ScanLine(elements, lines[li])
    /\ li' = li + 1
    /\ UNCHANGED <<input, text, ppc, lines, fell_back, result>>
    /\ UNCHANGED main_vars

\* the for loop is exhausted
ScanEnd ==
    /\ ppc = "scan" /\ li > Len(lines)
    /\ ppc' = "fallback"
    /\ UNCHANGED <<input, text, lines, li, elements, fell_back, result>>
    /\ UNCHANGED main_vars

\* if not elements: ... for key, pattern in patterns.items(): ...
Fallback ==
    /\ ppc = "fallback"
    /\ IF DOMAIN elements = {}
       THEN elements' = FallbackStrategy(text) /\ fell_back' = TRUE
       ELSE elements' = elements /\ fell_back' = fell_back
    /\ ppc' = "return"
    /\ UNCHANGED <<input, text, lines, li, result>>
    /\ UNCHANGED main_vars

\* return elements if elements else None
Return ==
    /\ ppc = "return"
    /\ result' = ReturnValue(elements)
    /\ ppc' = "done"
    /\ UNCHANGED <<input, text, lines, li, elements, fell_back>>
    /\ UNCHANGED main_vars

ParseNext ==
    \/ Urlopen
    \/ UrlopenRaises
    \/ NotFoundCheck
    \/ FindSection
    \/ ScanStep
    \/ ScanEnd
    \/ Fallback
    \/ Return

ParseSpec == ParseInit /\ [][ParseNext]_vars

(***************************************************************************)
(* fetch_elements and main.                                                *)
(***************************************************************************)
get_planet_data_all == <<
    [name |-> "Jupiter", id |-> "599", mass |-> "0.0009545942"],
    [name |-> "Saturn", id |-> "699", mass |-> "0.0002857214"],
    [name |-> "Uranus", id |-> "799", mass |-> "0.00004365785"],
    [name |-> "Neptune", id |-> "899", mass |-> "0.00005149497"] >>

get_tno_list_all == <<
    [name |-> "Sedna", id |-> "90377", designation |-> "2003 VB12"],
    [name |-> "Eris", id |-> "136199", designation |-> "2003 UB313"],
    [name |-> "Makemake", id |-> "136472", designation |-> "2005 FY9"],
    [name |-> "Gonggong", id |-> "225088", designation |-> "2007 OR10"],
    [name |-> "2012 VP113", id |-> "2012 VP113", designation |-> "2012 VP113"],
    [name |-> "The Goblin", id |-> "2015 TG387", designation |-> "2015 TG387"],
    [name |-> "2004 VN112", id |-> "2004 VN112", designation |-> "2004 VN112"],
    [name |-> "2010 GB174", id |-> "2010 GB174", designation |-> "2010 GB174"],
    [name |-> "2013 SY99", id |-> "2013 SY99", designation |-> "2013 SY99"],
    [name |-> "2014 SR349", id |-> "2014 SR349", designation |-> "2014 SR349"],
    [name |-> "2014 FE72", id |-> "2014 FE72", designation |-> "2014 FE72"],
    [name |-> "Quaoar", id |-> "50000", designation |-> "2002 LM60"],
    [name |-> "Orcus", id |-> "90482", designation |-> "2004 DW"],
    [name |-> "Haumea", id |-> "136108", designation |-> "2003 EL61"],
    [name |-> "Varuna", id |-> "20000", designation |-> "2000 WR106"] >>

Prefix(s, n) == SubSeq(s, 1, IF n < Len(s) THEN n ELSE Len(s))

\* the checked prefixes of the two lists
get_planet_data == Prefix(get_planet_data_all, MaxPlanets)
get_tno_list == Prefix(get_tno_list_all, MaxTnos)

\* what one urlopen call can do: raise, or deliver a response text
Responses ==
    {[exception |-> TRUE, input |-> NoInput]}
    \cup {[exception |-> FALSE, input |-> d] :
            d \in {Text("no_matches", FALSE, "none", <<>>, <<>>),
                   NoInput,
                   Text("none", FALSE, "both",
                        <<Perturb(Row(25, MinFields + 1), 2, Num(3500))>>, <<>>),
                   Text("none", FALSE, "both",
                        <<Perturb(Row(25, MinFields + 1), 2, Whole(3000))>>, <<>>),
                   Text("none", FALSE, "both",
                        <<Perturb(Row(25, MinFields + 1), 2, Num(2990))>>, <<>>),
                   Text("none", FALSE, "none", <<>>, <<[key |-> "e", f |-> Num(85)]>>)}}

\* fetch_elements(object_id, epoch), given what urlopen does
fetch_elements(response) ==
    IF response.exception
    THEN None                                   \* except Exception: return None
    ELSE parse_horizons_output(RenderText(response.input))

\* the value fetch_elements returns for each thing urlopen can do
Fetched == [response \in Responses |-> fetch_elements(response)]

\* (variant) a third form, the designation, is tried as well
IdFormats_Three(tno_info) ==
    <<tno_info.id, "DES=" \o tno_info.id, "DES=" \o tno_info.designation>>

\* [tno_info['id'], f"DES={tno_info['id']}"]
IdFormats(tno_info) == <<tno_info.id, "DES=" \o tno_info.id>>

ExtremeThreshold == 30

\* elements.get('perihelion', 0)
GetPerihelion(elems) == IF "perihelion" \in DOMAIN elems THEN elems["perihelion"] ELSE 0

\* (variant) the boundary itself counts as extreme
tno_type_AtLeast(elems) ==
    IF GetPerihelion(elems) >= ExtremeThreshold * Scale THEN "extreme_tno" ELSE "tno"

\* "extreme_tno" if elements.get('perihelion', 0) > 30 else "tno"
tno_type(elems) ==
    IF GetPerihelion(elems) > ExtremeThreshold * Scale THEN "extreme_tno" ELSE "tno"

PlanetRecord(planet_info, elems) ==
    [name |-> planet_info.name, id |-> planet_info.id, mass |-> planet_info.mass,
     orbital_elements |-> elems]

TnoRecord(tno_info, elems) ==
    [name |-> tno_info.name, designation |-> tno_info.designation,
     type |-> tno_type(elems), orbital_elements |-> elems]

Call(subject, object_id, returned) ==
    [subject |-> subject, object_id |-> object_id, returned |-> returned]

MainInit ==
    /\ ParseIdle
    /\ mpc = "planets" /\ p_idx = 1 /\ t_idx = 1 /\ f_idx = 1 /\ m_elements = None
    /\ planets = <<>> /\ tnos = <<>> /\ calls = <<>>

\* (variant) a planet whose fetch returns no data ends the planet loop
PlanetIteration_StopsOnFailure ==
    /\ mpc = "planets" /\ p_idx <= Len(get_planet_data)
    /\ \E response \in Responses : \E fetched \in {Fetched[response]} :
          LET planet_info == get_planet_data[p_idx]
          IN  /\ m_elements' = fetched
              /\ calls' = Append(calls, Call(planet_info.name, planet_info.id, fetched))
              /\ planets' = IF Truthy(fetched)
                            THEN Append(planets, PlanetRecord(planet_info, fetched.elements))
                            ELSE planets
              /\ p_idx' = IF Truthy(fetched) THEN p_idx + 1 ELSE Len(get_planet_data) + 1
    /\ UNCHANGED <<mpc, t_idx, f_idx, tnos>>
    /\ UNCHANGED parse_vars

\* one iteration of 'for planet_info in get_planet_data()'
PlanetIteration ==
    /\ mpc = "planets" /\ p_idx <= Len(get_planet_data)
    /\ \E response \in Responses : \E fetched \in {Fetched[response]} :
          LET planet_info == get_planet_data[p_idx]
          IN  /\ m_elements' = fetched
              /\ calls' = Append(calls, Call(planet_info.name, planet_info.id, fetched))
              /\ planets' = IF Truthy(fetched)
                            THEN Append(planets, PlanetRecord(planet_info, fetched.elements))
                            ELSE planets
    /\ p_idx' = p_idx + 1
    /\ UNCHANGED <<mpc, t_idx, f_idx, tnos>>
    /\ UNCHANGED parse_vars

\* the planet loop is exhausted; tnos = []
PlanetsDone ==
    /\ mpc = "planets" /\ p_idx > Len(get_planet_data)
    /\ mpc' = "tnos" /\ tnos' = <<>> /\ t_idx' = 1
    /\ UNCHANGED <<p_idx, f_idx, m_elements, planets, calls>>
    /\ UNCHANGED parse_vars

\* 'for tno_info in get_tno_list()': elements = None, and the inner loop begins
TnoBegin ==
    /\ mpc = "tnos" /\ t_idx <= Len(get_tno_list)
    /\ m_elements' = None /\ f_idx' = 1 /\ mpc' = "formats"
    /\ UNCHANGED <<p_idx, t_idx, planets, tnos, calls>>
    /\ UNCHANGED parse_vars

\* one iteration of 'for id_format in [...]': fetch, and break if elements
TnoFetch ==
    /\ mpc = "formats" /\ f_idx <= Len(IdFormats(get_tno_list[t_idx]))
    /\ \E response \in Responses : \E fetched \in {Fetched[response]} :
          LET tno_info == get_tno_list[t_idx]
              id_format == IdFormats(tno_info)[f_idx]
          IN  /\ m_elements' = fetched
              /\ calls' = Append(calls, Call(tno_info.name, id_format, fetched))
              /\ IF Truthy(fetched)
                 THEN mpc' = "assemble" /\ f_idx' = f_idx
                 ELSE mpc' = mpc /\ f_idx' = f_idx + 1
    /\ UNCHANGED <<p_idx, t_idx, planets, tnos>>
    /\ UNCHANGED parse_vars

\* the inner loop is exhausted without a break
FormatsDone ==
    /\ mpc = "formats" /\ f_idx > Len(IdFormats(get_tno_list[t_idx]))
    /\ mpc' = "assemble"
    /\ UNCHANGED <<p_idx, t_idx, f_idx, m_elements, planets, tnos, calls>>
    /\ UNCHANGED parse_vars

\* if elements: tnos.append({...})
TnoAssemble ==
    /\ mpc = "assemble"
    /\ tnos' = IF Truthy(m_elements)
               THEN Append(tnos, TnoRecord(get_tno_list[t_idx], m_elements.elements))
               ELSE tnos
    /\ t_idx' = t_idx + 1 /\ mpc' = "tnos"
    /\ UNCHANGED <<p_idx, f_idx, m_elements, planets, calls>>
    /\ UNCHANGED parse_vars

\* the TNO loop is exhausted: the output document is built from planets and tnos
TnosDone ==
    /\ mpc = "tnos" /\ t_idx > Len(get_tno_list)
    /\ mpc' = "done"
    /\ UNCHANGED <<p_idx, t_idx, f_idx, m_elements, planets, tnos, calls>>
    /\ UNCHANGED parse_vars

Init == MainInit

Next ==
    \/ PlanetIteration
    \/ PlanetsDone
    \/ TnoBegin
    \/ TnoFetch
    \/ FormatsDone
    \/ TnoAssemble
    \/ TnosDone

Spec == Init /\ [][Next]_vars

(***************************************************************************)
(* What a described text denotes, read off its description (not its        *)
(* characters): the reference the extractor's result is compared with.     *)
(***************************************************************************)
RequiredFields == 12    \* the row fields the dict display reads: parts[0..11]

NumericKinds == {"num", "int", "pad"}

\* a field float() accepts, or an empty one
FieldOk(f) == f.kind \in NumericKinds \cup {"empty"}

Denotes(f) == IF f.kind = "empty" THEN 0 ELSE f.v

\* the line of the row holds a comma and a digit
Qualifies(row) ==
    Len(row) >= 2 /\ \E k \in 1..Len(row) : row[k].kind \in NumericKinds \cup {"dotted"}

\* the positional mapping of section 4.1, step 2
PositionalMapping(row) ==
    ("eccentricity" :> Denotes(row[1])) @@ ("perihelion" :> Denotes(row[2]))
    @@ ("inclination" :> Denotes(row[3]))
    @@ ("longitude_ascending_node" :> Denotes(row[4]))
    @@ ("argument_perihelion" :> Denotes(row[5]))
    @@ ("mean_anomaly" :> Denotes(row[8])) @@ ("semimajor_axis" :> Denotes(row[10]))
    @@ ("aphelion" :> Denotes(row[11]))
    @@ ("orbital_period" :>
            IF Len(row) >= 12 /\ row[12].kind # "empty" THEN <<row[12].v>> ELSE <<>>)

\* a qualifying row with the required fields, each used one parseable or empty
Complete(row) ==
    /\ Qualifies(row)
    /\ Len(row) >= RequiredFields
    /\ \A k \in UsedFields : FieldOk(row[k + 1])

\* the mapping after the first n rows of the block: that of the last complete
\* row among them, or the empty one
MappingAfter(rows, n) ==
    LET done == {k \in 1..n : Complete(rows[k])}
    IN  IF done = {} THEN <<>>
        ELSE PositionalMapping(rows[CHOOSE k \in done : \A j \in done : j <= k])

Returned == ppc = "done"
Scanned == Returned /\ input.phrase = "none" /\ input.markers = "both"

\* C1: a text that contains "No matches found" or "Cannot find" is answered with
\* None, whatever else it contains (a parseable row between the markers, a
\* "key = value" pattern), and no strategy runs on it.
C1_NotFoundReturnsNone ==
    (Returned /\ input.phrase # "none")
        => (result = None /\ elements = <<>> /\ ~fell_back /\ lines = <<>>)

C1_Witness ==
    /\ Returned /\ result = None
    /\ input.phrase = "cannot_find" /\ input.phrase_last
    /\ input.markers = "both" /\ input.rows = <<Row(25, RequiredFields)>>
    /\ input.kvs # <<>>

\* C2: a row of exactly 11 numeric fields between the markers is accepted and
\* yields the positional mapping with orbital_period unknown.
C2_ElevenFieldRowAccepted ==
    (/\ Scanned /\ Len(input.rows) = 1
     /\ Len(input.rows[1]) = MinFields
     /\ \A k \in 1..MinFields : input.rows[1][k].kind \in NumericKinds)
        => result = Dict(PositionalMapping(input.rows[1]))

\* C3: a block of one qualifying row of 12 or more fields whose used fields are
\* numeric or empty yields exactly the positional mapping: fields 5, 6 and 8 are
\* ignored, an empty used field gives 0, an empty field 11 an unknown period.
C3_PositionalMapping ==
    (/\ Scanned /\ Len(input.rows) = 1
     /\ Qualifies(input.rows[1])
     /\ Len(input.rows[1]) >= RequiredFields
     /\ \A k \in UsedFields : FieldOk(input.rows[1][k + 1]))
        => result = Dict(PositionalMapping(input.rows[1]))

C3_Witness ==
    /\ Returned /\ input.phrase = "none"
    /\ input.rows = <<Perturb(Row(25, RequiredFields), 1, Empty)>>
    /\ result.present
    /\ result.elements["eccentricity"] = 0
    /\ result.elements["mean_anomaly"] = 8025

\* C4: fetch_elements and parse_horizons_output return None or a dict with at
\* least one key, never a present but empty dict; None whenever neither strategy
\* set a key (so for a text with no phrase, no markers and no pattern), and None
\* when the transport raises.
C4_NeverEmptyMapping ==
    /\ ppc \in {"done", "failed"}
          => (result = None \/ (result.present /\ DOMAIN result.elements # {}))
    /\ ppc = "failed" => result = None
    /\ (Returned /\ DOMAIN elements = {}) => result = None
    /\ (Returned /\ input = NoInput) => (result = None /\ fell_back)

C4_Witness ==
    Returned /\ input = NoInput /\ fell_back /\ elements = <<>> /\ result = None

\* C7: the last complete row of the block wins: a line that does not qualify,
\* is too short or has an unparseable used field leaves the mapping of the rows
\* before it as it is and does not end the scan.
C7_LastCompleteRowWins ==
    /\ (ppc = "scan" /\ input.markers = "both" /\ Len(lines) = Len(input.rows))
          => elements = MappingAfter(input.rows, li - 1)
    /\ (Scanned /\ \E k \in 1..Len(input.rows) : Complete(input.rows[k]))
          => result = Dict(MappingAfter(input.rows, Len(input.rows)))

C7_Witness ==
    /\ Returned /\ input.phrase = "none" /\ Len(input.rows) = 3
    /\ input.rows[1] = Row(25, RequiredFields)
    /\ input.rows[2] = Perturb(Row(1500, RequiredFields), 2, Word)
    /\ input.rows[3] = Perturb(Row(1500, RequiredFields), 1, Empty)
    /\ result = Dict(PositionalMapping(input.rows[3]))

\* the first "key = value" line of the text, among those with one of the keys,
\* that the pattern matches (0 if there is none)
FirstPattern(keys) ==
    LET hits == {k \in 1..Len(input.kvs) :
                    input.kvs[k].key \in keys /\ input.kvs[k].f.kind # "word"}
    IN  IF hits = {} THEN 0 ELSE CHOOSE k \in hits : \A j \in hits : k <= j

HasNumber(key) ==
    \E k \in 1..Len(input.kvs) :
        input.kvs[k].key = key /\ input.kvs[k].f.kind = "num"

NumberOf(key) ==
    input.kvs[CHOOSE k \in 1..Len(input.kvs) :
                  input.kvs[k].key = key /\ input.kvs[k].f.kind = "num"].f.v

FellBack == Returned /\ fell_back

\* the element is set, to v
IsSet(name, v) == name \in DOMAIN elements /\ elements[name] = v

\* what the first matched line of the keys makes of the element
DecidedByFirst(name, keys) ==
    LET k == FirstPattern(keys)
    IN  IF k = 0 \/ input.kvs[k].f.kind # "num"
        THEN name \notin DOMAIN elements
        ELSE IsSet(name, input.kvs[k].f.v)

\* C8 as stated: with both "node = x" and "Omega = y" in the text the node is x,
\* and with both "peri = x" and "w = y" the argument is x, in either order.
C8_FirstListedSpellingWins ==
    /\ (FellBack /\ HasNumber("node") /\ HasNumber("Omega"))
          => IsSet("longitude_ascending_node", NumberOf("node"))
    /\ (FellBack /\ HasNumber("peri") /\ HasNumber("w"))
          => IsSet("argument_perihelion", NumberOf("peri"))

\* C8 as amended: with both spellings in the text, the one that stands first in
\* the text decides the element: its value if float() accepts it, no key if not.
C8_LeftmostSpellingWins ==
    /\ (FellBack /\ HasNumber("node") /\ HasNumber("Omega"))
          => DecidedByFirst("longitude_ascending_node", {"node", "Omega"})
    /\ (FellBack /\ HasNumber("peri") /\ HasNumber("w"))
          => DecidedByFirst("argument_perihelion", {"peri", "w"})

C8_Witness ==
    /\ FellBack
    /\ input.kvs = <<[key |-> "Omega", f |-> Num(185)], [key |-> "node", f |-> Num(285)]>>
    /\ IsSet("longitude_ascending_node", 185)

\* C10: the fallback result has the perihelion key exactly if it has the
\* aphelion key, and both have the value of the first "q =" or "Q =" of the text.
C10_PerihelionIsAphelion ==
    FellBack =>
        /\ ("perihelion" \in DOMAIN elements) <=> ("aphelion" \in DOMAIN elements)
        /\ DecidedByFirst("perihelion", {"q", "Q"})
        /\ DecidedByFirst("aphelion", {"q", "Q"})

C10_Witness ==
    /\ FellBack
    /\ input.kvs = <<[key |-> "Q", f |-> Num(185)], [key |-> "q", f |-> Num(285)]>>
    /\ IsSet("perihelion", 185) /\ IsSet("aphelion", 185)

(***************************************************************************)
(* Claims about main, read off the calls of fetch_elements.                *)
(***************************************************************************)
PlanetNames == {get_planet_data[k].name : k \in 1..Len(get_planet_data)}
TnoNames == {get_tno_list[k].name : k \in 1..Len(get_tno_list)}

\* the calls made for one object
CallsFor(name) ==
    LET For(c) == c.subject = name IN SelectSeq(calls, For)

\* the calls that returned data, among those made for the objects of names
DataCalls(names) ==
    LET Data(c) == c.subject \in names /\ Truthy(c.returned) IN SelectSeq(calls, Data)

\* the TNOs whose iteration of the outer loop is over
FinishedTnos == {get_tno_list[k].name : k \in 1..(t_idx - 1)}

RecordsOf(list, name) ==
    LET Named(r) == r.name = name IN SelectSeq(list, Named)

\* C5: per TNO the primary identifier is fetched first and "DES=" + id only if
\* the primary returned no data; never a third fetch; the record carries the
\* elements of the attempt that returned data; no record when both returned none.
C5_IdentifierResolution ==
    \A j \in 1..Len(get_tno_list) :
        LET tno_info == get_tno_list[j]
            cs == CallsFor(tno_info.name)
            recs == RecordsOf(tnos, tno_info.name)
        IN  /\ Len(cs) <= 2
            /\ Len(cs) >= 1 => cs[1].object_id = tno_info.id
            /\ Len(cs) = 2 => /\ cs[2].object_id = "DES=" \o tno_info.id
                              /\ ~Truthy(cs[1].returned)
            /\ j < t_idx =>
                  /\ Len(cs) >= 1
                  /\ ~Truthy(cs[1].returned) => Len(cs) = 2
                  /\ IF Truthy(cs[Len(cs)].returned)
                     THEN /\ Len(recs) = 1
                          /\ recs[1].orbital_elements = cs[Len(cs)].returned.elements
                     ELSE recs = <<>>

C5_Witness ==
    /\ mpc = "done"
    /\ LET cs == CallsFor(get_tno_list[1].name)
       IN  /\ Len(cs) = 2
           /\ cs[2].object_id = "DES=90377"
           /\ Truthy(cs[2].returned)
           /\ tnos # <<>>
           /\ tnos[1].name = "Sedna"
           /\ tnos[1].orbital_elements = cs[2].returned.elements

\* the names of a sequence of calls, a run of calls for one object counted once
RECURSIVE Subjects(_)
Subjects(cs) ==
    IF cs = <<>> THEN <<>>
    ELSE LET rest == Subjects(Tail(cs))
         IN  IF rest # <<>> /\ rest[1] = cs[1].subject
             THEN rest
             ELSE <<cs[1].subject>> \o rest

AllNames ==
    [k \in 1..Len(get_planet_data) |-> get_planet_data[k].name]
    \o [k \in 1..Len(get_tno_list) |-> get_tno_list[k].name]

\* C6: every planet and then every TNO is attempted, in list order, whatever
\* the outcomes of the others; planets is the sub-sequence of the planets whose
\* fetch returned data and tnos that of the TNOs for which one form did.
C6_FailuresIsolated ==
    /\ Subjects(calls) = Prefix(AllNames, Len(Subjects(calls)))
    /\ mpc = "done" => Subjects(calls) = AllNames
    /\ \A n \in PlanetNames : Len(CallsFor(n)) <= 1
    /\ LET data == DataCalls(PlanetNames)
       IN  /\ Len(planets) = Len(data)
           /\ \A k \in 1..Len(data) :
                 /\ planets[k].name = data[k].subject
                 /\ planets[k].orbital_elements = data[k].returned.elements
    /\ LET data == DataCalls(FinishedTnos)
       IN  /\ Len(tnos) = Len(data)
           /\ \A k \in 1..Len(data) :
                 /\ tnos[k].name = data[k].subject
                 /\ tnos[k].orbital_elements = data[k].returned.elements

C6_Witness ==
    /\ mpc = "done"
    /\ Len(calls) = Len(get_planet_data) + 2 * Len(get_tno_list) - 1
    /\ ~Truthy(calls[1].returned)
    /\ Len(planets) = Len(get_planet_data) - 1 /\ planets[1].name = "Saturn"
    /\ Len(tnos) = Len(get_tno_list) - 1 /\ tnos[1].name = "Eris"

\* C9: a TNO record is "extreme_tno" exactly if its perihelion is greater than
\* 30 (35 is, 30 and 29.9 are not, nor a mapping without the key), "tno" if not;
\* a planet record has no type.
C9_StrictBoundary ==
    /\ \A k \in 1..Len(tnos) :
          LET e == tnos[k].orbital_elements
          IN  tnos[k].type =
                 IF "perihelion" \in DOMAIN e /\ e["perihelion"] > 3000
                 THEN "extreme_tno" ELSE "tno"
    /\ \A k \in 1..Len(planets) : "type" \notin DOMAIN planets[k]

C9_Witness ==
    /\ mpc = "done" /\ Len(tnos) = Len(get_tno_list)
    /\ GetPerihelion(tnos[1].orbital_elements) = 3000 /\ tnos[1].type = "tno"
    /\ GetPerihelion(tnos[2].orbital_elements) = 3500 /\ tnos[2].type = "extreme_tno"

====
